---- MODULE Spec2Model ----
(***************************************************************************)
(* Model of use_cli (src/src/main.rs): the run of main, the recursive      *)
(* resolver get_use_environments with its call stack, the fold             *)
(* merge_environments and the presenter print_environment.                 *)
(*                                                                         *)
(* Encoding of Rust values:                                                *)
(*   Option<T>        None is <<>>, Some(x) is <<x>>                       *)
(*   String           a value of Vals (strings are only cloned, compared   *)
(*                    and printed), a key of Keys, a name of EnvNames      *)
(*   Vec<String>      a sequence                                           *)
(*   HashMap<K, V>    a set of <<key, value>> pairs with distinct keys     *)
(*   HashMap<String, Environment>   a function from a set of names         *)
(***************************************************************************)
EXTENDS Integers, Sequences, FiniteSets, TLC

VARIABLES config_file, args, environments, pc, stack, use_envs, env,
          stdout, stderr, exit_code

vars == <<config_file, args, environments, pc, stack, use_envs, env,
          stdout, stderr, exit_code>>

----------------------------------------------------------------------------
(* Bounds of the explored inputs *)

\* values a string field can take
MaxVal == 2
\* total number of `use` entries in a config store
MaxRefs == 3
\* length of the input sequence of merge_environments checked on its own
MaxLen == 3
\* length of a `path` / `defer` list in a merge input
MaxList == 1
\* frames of get_use_environments the thread's stack can hold
StackLimit == 5

\* environment names, in the order `sort` puts them
NameOrder == <<"a", "b", "c">>
EnvNames == {NameOrder[i] : i \in 1..Len(NameOrder)}
Keys == {"X", "Y"}
Vals == 1..MaxVal

----------------------------------------------------------------------------
(* Option, Vec and HashMap *)

None == <<>>
Some(x) == <<x>>
IsSome(o) == o # None
Unwrap(o) == o[1]

\* Option::or
Or(a, b) == IF IsSome(a) THEN a ELSE b

\* Option<Vec<_>>::unwrap_or_default
VecOrDefault(o) == IF IsSome(o) THEN Unwrap(o) ELSE <<>>

\* Option<HashMap<_, _>>::unwrap_or_default
MapOrDefault(o) == IF IsSome(o) THEN Unwrap(o) ELSE {}

MapKeys(m) == {p[1] : p \in m}
MapGet(m, k) == (CHOOSE p \in m : p[1] = k)[2]

\* HashMap::extend: the entries of m2 replace those of m1 with the same key
MapExtend(m1, m2) == {p \in m1 : p[1] \notin MapKeys(m2)} \cup m2

\* Vec::contains, by PartialEq of the elements
Contains(s, x) == \E i \in 1..Len(s) : s[i] = x

\* a resolver that forgets to reverse
ReverseForgotten(s) == s

\* Vec::reverse
Reverse(s) == [i \in 1..Len(s) |-> s[Len(s) + 1 - i]]

----------------------------------------------------------------------------
(* struct Environment *)

Environment(display, defer, set, append, prepend, path, reuse, go) ==
    [display |-> display, defer |-> defer, set |-> set, append |-> append,
     prepend |-> prepend, path |-> path, reuse |-> reuse, go |-> go]

\* an entry of the config file with every field absent
EmptyEnvironment == Environment(None, None, None, None, None, None, None, None)

FieldNames == {"display", "defer", "set", "append", "prepend", "path", "go"}
ScalarFields == {"display", "go"}
VecFields == {"defer", "path"}
MapFields == {"set", "append", "prepend"}

----------------------------------------------------------------------------
(* merge_environments *)

\* a merge that puts the later record's path and defer first
MergeStepVecFirst(result, e) ==
    [display |-> Or(e.display, result.display),
     defer   |-> Some(VecOrDefault(e.defer) \o VecOrDefault(result.defer)),
     set     |-> Some(MapExtend(MapOrDefault(result.set), MapOrDefault(e.set))),
     append  |-> Some(MapExtend(MapOrDefault(result.append), MapOrDefault(e.append))),
     prepend |-> Some(MapExtend(MapOrDefault(result.prepend), MapOrDefault(e.prepend))),
     path    |-> Some(VecOrDefault(e.path) \o VecOrDefault(result.path)),
     reuse   |-> result.reuse,
     go      |-> Or(e.go, result.go)]

\* a merge in which the earlier record's values win
MergeStepFirstWins(result, e) ==
    [display |-> Or(result.display, e.display),
     defer   |-> Some(VecOrDefault(result.defer) \o VecOrDefault(e.defer)),
     set     |-> Some(MapExtend(MapOrDefault(e.set), MapOrDefault(result.set))),
     append  |-> Some(MapExtend(MapOrDefault(e.append), MapOrDefault(result.append))),
     prepend |-> Some(MapExtend(MapOrDefault(e.prepend), MapOrDefault(result.prepend))),
     path    |-> Some(VecOrDefault(result.path) \o VecOrDefault(e.path)),
     reuse   |-> result.reuse,
     go      |-> Or(result.go, e.go)]

\* one iteration of the loop of merge_environments: e is folded into result
MergeStep(result, e) ==
    [display |-> Or(e.display, result.display),
     defer   |-> Some(VecOrDefault(result.defer) \o VecOrDefault(e.defer)),
     set     |-> Some(MapExtend(MapOrDefault(result.set), MapOrDefault(e.set))),
     append  |-> Some(MapExtend(MapOrDefault(result.append), MapOrDefault(e.append))),
     prepend |-> Some(MapExtend(MapOrDefault(result.prepend), MapOrDefault(e.prepend))),
     path    |-> Some(VecOrDefault(result.path) \o VecOrDefault(e.path)),
     reuse   |-> result.reuse,
     go      |-> Or(e.go, result.go)]

RECURSIVE MergeFrom(_, _, _)
MergeFrom(envs, i, result) ==
    IF i > Len(envs) THEN result
    ELSE MergeFrom(envs, i + 1, MergeStep(result, envs[i]))

\* envs[0] seeds the result, the others are folded in, in order
merge_environments(envs) == MergeFrom(envs, 2, envs[1])

----------------------------------------------------------------------------
(* get_use_environments, one frame of the recursion per element of stack *)

\* the inner loop: every element of reuse_envs not yet in use_envs is pushed
RECURSIVE PushNew(_, _, _)
PushNew(acc, reuse_envs, i) ==
    IF i > Len(reuse_envs) THEN acc
    ELSE PushNew(IF Contains(acc, reuse_envs[i]) THEN acc
                 ELSE Append(acc, reuse_envs[i]),
                 reuse_envs, i + 1)

Frame(name) == [env_name |-> name,
                use_envs |-> <<environments[name]>>,
                next     |-> 1]

Top == stack[Len(stack)]

\* the `use` list the top frame iterates over
TopReuse == VecOrDefault(environments[Top.env_name].reuse)

PanicUnwrapNone == <<"panicked", "called Option::unwrap() on a None value">>
StackOverflowMsg == <<"fatal", "thread main has overflowed its stack">>

\* entry of get_use_environments(name, envs)
Call(name) ==
    IF Len(stack) >= StackLimit
    THEN /\ stderr' = Append(stderr, StackOverflowMsg)
         /\ exit_code' = Some(134)
         /\ pc' = "exit"
         /\ UNCHANGED stack
    ELSE IF name \notin DOMAIN environments
    THEN /\ stderr' = Append(stderr, PanicUnwrapNone)
         /\ exit_code' = Some(101)
         /\ pc' = "exit"
         /\ UNCHANGED stack
    ELSE /\ stack' = Append(stack, Frame(name))
         /\ pc' = "resolving"
         /\ UNCHANGED <<stderr, exit_code>>

\* main calls get_use_environments(env_name, &environments)
ResolveStart ==
    /\ pc = "resolve"
    /\ Call(Unwrap(args.env_name))
    /\ UNCHANGED <<config_file, args, environments, use_envs, env, stdout>>

\* the outer loop reaches the next name of the `use` list and recurses
Recurse ==
    /\ pc = "resolving"
    /\ Top.next <= Len(TopReuse)
    /\ Call(TopReuse[Top.next])
    /\ UNCHANGED <<config_file, args, environments, use_envs, env, stdout>>

\* the outer loop is over: reverse, return, and the caller merges the result
Return ==
    /\ pc = "resolving"
    /\ Top.next > Len(TopReuse)
    /\ LET ret == Reverse(Top.use_envs)
           n == Len(stack)
       IN IF n = 1
          THEN /\ use_envs' = ret
               /\ stack' = <<>>
               /\ pc' = "merge"
          ELSE /\ stack' = [i \in 1..(n - 1) |->
                              IF i = n - 1
                              THEN [stack[i] EXCEPT
                                      !.use_envs = PushNew(stack[i].use_envs, ret, 1),
                                      !.next = stack[i].next + 1]
                              ELSE stack[i]]
               /\ UNCHANGED <<use_envs, pc>>
    /\ UNCHANGED <<config_file, args, environments, env, stdout, stderr, exit_code>>

----------------------------------------------------------------------------
(* print_environment and list_environments *)

\* the orders in which iterating a HashMap can yield its entries
MapOrders(m) ==
    {s \in [1..Cardinality(m) -> m] :
        \A i, j \in 1..Cardinality(m) : i # j => s[i] # s[j]}

\* print_vec
VecLines(label, vec) ==
    [i \in 1..Len(VecOrDefault(vec)) |-> <<label, VecOrDefault(vec)[i]>>]

\* print_map, the entries taken in the order s
MapLines(label, s) == [i \in 1..Len(s) |-> <<label, s[i][1], s[i][2]>>]

ScalarLines(label, o) == IF IsSome(o) THEN <<<<label, Unwrap(o)>>>> ELSE <<>>

\* the keys of the store, sorted
SortedKeys(configs) ==
    SelectSeq(NameOrder, LAMBDA n : n \in DOMAIN configs)

ListLines(configs) ==
    [i \in 1..Len(SortedKeys(configs)) |-> <<"NAME", SortedKeys(configs)[i]>>]

EnvLabels == {"DISPLAY", "DEFER", "SET", "APPEND", "PREPEND", "PATH", "GO"}

----------------------------------------------------------------------------
(* The inputs: the parsed content of ~/.useconfig.json *)

\* an entry of the file: its fields all hold the value v, under the key "X" in
\* the maps (v = 0: every field absent)
Entry(v, reuse) ==
    IF v = 0 THEN [EmptyEnvironment EXCEPT !.reuse = reuse]
    ELSE Environment(Some(v), Some(<<v>>), Some({<<"X", v>>}), Some({<<"X", v>>}),
                     Some({<<"X", v>>}), Some(<<v>>), reuse, Some(v))

\* the `use` lists: absent, or at most MaxRefs names, none twice in a list
UseLists ==
    {None} \cup
    {Some(l) : l \in {m \in UNION {[1..k -> EnvNames] : k \in 1..MaxRefs} :
                         \A i, j \in 1..Len(m) : i # j => m[i] # m[j]}}

\* what the file holds for one name: no entry (None), or an entry
Rows == {None} \cup {Some(Entry(v, u)) : v \in 0..MaxVal, u \in UseLists}

RowRefs(row) == IF IsSome(row) THEN Len(VecOrDefault(Unwrap(row).reuse)) ELSE 0

RECURSIVE TotalRefs(_, _)
TotalRefs(rows, i) ==
    IF i > Len(rows) THEN 0 ELSE RowRefs(rows[i]) + TotalRefs(rows, i + 1)

StoreOf(rows) ==
    [n \in {NameOrder[i] : i \in {j \in 1..Len(rows) : IsSome(rows[j])}} |->
        Unwrap(rows[CHOOSE i \in 1..Len(rows) : NameOrder[i] = n])]

\* the stores with at most MaxRefs `use` entries in all
Stores ==
    {StoreOf(rows) : rows \in {r \in [1..Len(NameOrder) -> Rows] :
                                  TotalRefs(r, 1) <= MaxRefs}}

ArgSets == [env_name : {None} \cup {Some(n) : n \in EnvNames},
            list : BOOLEAN, create : BOOLEAN]

----------------------------------------------------------------------------
(* main *)

NoStore == [n \in {} |-> EmptyEnvironment]

Init ==
    /\ config_file \in {"missing", "malformed", "valid"}
    /\ args \in ArgSets
    /\ environments = NoStore
    /\ pc = "start"
    /\ stack = <<>>
    /\ use_envs = <<>>
    /\ env = None
    /\ stdout = <<>>
    /\ stderr = <<>>
    /\ exit_code = None

Exit(code) == /\ exit_code' = Some(code)
              /\ pc' = "exit"

\* if !config_file.exists()
CheckConfigExists ==
    /\ pc = "start"
    /\ IF config_file = "missing"
       THEN /\ stdout' = Append(stdout, <<"Error", "config file does not exist">>)
            /\ Exit(1)
       ELSE /\ pc' = "read"
            /\ UNCHANGED <<stdout, exit_code>>
    /\ UNCHANGED <<config_file, args, environments, stack, use_envs, env, stderr>>

\* read_config_file: serde parses the file into the store, or fails
ReadConfigFile ==
    /\ pc = "read"
    /\ IF config_file = "malformed"
       THEN /\ stdout' = Append(stdout, <<"Error", "reading config file">>)
            /\ Exit(1)
            /\ UNCHANGED environments
       ELSE /\ \E store \in Stores : environments' = store
            /\ pc' = "dispatch"
            /\ UNCHANGED <<stdout, exit_code>>
    /\ UNCHANGED <<config_file, args, stack, use_envs, env, stderr>>

\* if args.create: the example file replaces the config file
CreateConfigFile ==
    /\ pc = "dispatch"
    /\ args.create
    /\ config_file' = "example"
    /\ stdout' = Append(stdout, <<"Created", "config file">>)
    /\ Exit(0)
    /\ UNCHANGED <<args, environments, stack, use_envs, env, stderr>>

\* if args.list, or no name was given
ListEnvironments ==
    /\ pc = "dispatch"
    /\ ~args.create
    /\ args.list \/ args.env_name = None
    /\ stdout' = stdout \o ListLines(environments)
    /\ Exit(0)
    /\ UNCHANGED <<config_file, args, environments, stack, use_envs, env, stderr>>

\* a main that does not look the requested name up before resolving it
SelectEnvironmentUnchecked ==
    /\ pc = "dispatch"
    /\ ~args.create
    /\ ~args.list
    /\ args.env_name # None
    /\ pc' = "resolve"
    /\ UNCHANGED <<config_file, args, environments, stack, use_envs, env,
                   stdout, stderr, exit_code>>

\* match environments.get(&env_name)
SelectEnvironment ==
    /\ pc = "dispatch"
    /\ ~args.create
    /\ ~args.list
    /\ args.env_name # None
    /\ IF Unwrap(args.env_name) \in DOMAIN environments
       THEN /\ pc' = "resolve"
            /\ UNCHANGED <<stdout, exit_code>>
       ELSE /\ stdout' = Append(stdout, <<"Error", "Environment not found",
                                          Unwrap(args.env_name)>>)
            /\ Exit(1)
    /\ UNCHANGED <<config_file, args, environments, stack, use_envs, env, stderr>>

\* let env = merge_environments(use_envs)
Merge ==
    /\ pc = "merge"
    /\ env' = Some(merge_environments(use_envs))
    /\ pc' = "print"
    /\ UNCHANGED <<config_file, args, environments, stack, use_envs, stdout,
                   stderr, exit_code>>

\* print_environment(&env), then main returns
PrintEnvironment ==
    /\ pc = "print"
    /\ LET e == Unwrap(env)
       IN \E s \in MapOrders(MapOrDefault(e.set)),
             a \in MapOrders(MapOrDefault(e.append)),
             p \in MapOrders(MapOrDefault(e.prepend)) :
            stdout' = stdout \o ScalarLines("DISPLAY", e.display)
                             \o VecLines("DEFER", e.defer)
                             \o MapLines("SET", s)
                             \o MapLines("APPEND", a)
                             \o MapLines("PREPEND", p)
                             \o VecLines("PATH", e.path)
                             \o ScalarLines("GO", e.go)
    /\ Exit(0)
    /\ UNCHANGED <<config_file, args, environments, stack, use_envs, env, stderr>>

Next ==
    \/ CheckConfigExists
    \/ ReadConfigFile
    \/ CreateConfigFile
    \/ ListEnvironments
    \/ SelectEnvironment
    \/ ResolveStart
    \/ Recurse
    \/ Return
    \/ Merge
    \/ PrintEnvironment

Spec == Init /\ [][Next]_vars

----------------------------------------------------------------------------
(* The reference graph of the store, for stating the properties *)

Root == Unwrap(args.env_name)

Uses(n) ==
    IF n \in DOMAIN environments THEN VecOrDefault(environments[n].reuse)
    ELSE <<>>

Succ(n) == {Uses(n)[i] : i \in 1..Len(Uses(n))}

RECURSIVE ReachFrom(_)
ReachFrom(S) ==
    LET T == S \cup UNION {Succ(n) : n \in S}
    IN IF T = S THEN S ELSE ReachFrom(T)

\* the names reachable from n through `use` lists, n included
Reach(n) == ReachFrom({n})

\* n reaches itself through one `use` entry or more
Cyclic(n) == n \in ReachFrom(Succ(n))

\* main has found the requested name in the store
RootSelected ==
    /\ pc \notin {"start", "read", "dispatch"}
    /\ ~args.create
    /\ ~args.list
    /\ IsSome(args.env_name)
    /\ Root \in DOMAIN environments

\* every name reachable from the root is a key of the store
Closed == Reach(Root) \subseteq DOMAIN environments

Acyclic == \A n \in Reach(Root) : ~Cyclic(n)

\* no two reachable names hold equal records
DistinctRecords ==
    \A m, n \in Reach(Root) \cap DOMAIN environments :
        m # n => environments[m] # environments[n]

\* get_use_environments has returned to main
Returned == RootSelected /\ (pc \in {"merge", "print"} \/ IsSome(env))

Count(s, x) == Cardinality({i \in 1..Len(s) : s[i] = x})

Pos(s, x) == CHOOSE i \in 1..Len(s) : s[i] = x

EnvLines == {i \in 1..Len(stdout) : stdout[i][1] \in EnvLabels}

Messages == SelectSeq(stdout \o stderr,
                      LAMBDA l : l[1] \in {"Error", "panicked", "fatal"})

\* some error message names n
Mentions(n) ==
    \E i \in 1..Len(Messages) :
        \E k \in 1..Len(Messages[i]) : Messages[i][k] = n

----------------------------------------------------------------------------
(* C1 *)

\* C1 (cycle safety): whenever every reachable name is in the store, cyclic
\* `use` lists included, the resolution never exhausts the stack, and once it
\* has returned, each cyclic environment is in the sequence exactly once.
C1_CycleSafety ==
    (RootSelected /\ Closed) =>
        /\ exit_code # Some(134)
        /\ Returned =>
             \A n \in Reach(Root) :
                 Cyclic(n) => Count(use_envs, environments[n]) = 1

----------------------------------------------------------------------------
(* C2 *)

\* C2 (base before specific): in an acyclic store, every environment of the
\* returned sequence comes after each environment its `use` list names.
\* Stated on the stores whose reachable records differ pairwise, where a record
\* of the sequence stands for one name.
C2_BaseBeforeSpecific ==
    (Returned /\ Acyclic /\ DistinctRecords) =>
        \A i \in 1..Len(use_envs) :
            \A k \in 1..Len(VecOrDefault(use_envs[i].reuse)) :
                \E j \in 1..(i - 1) :
                    use_envs[j] = environments[Unwrap(use_envs[i].reuse)[k]]

----------------------------------------------------------------------------
(* C3 *)

\* C3 (exactly-once closure): in an acyclic store the returned sequence has
\* one entry per reachable name: as long as the set of reachable names, and
\* the record of every reachable name in it once.
C3_ExactlyOnceClosure ==
    (Returned /\ Acyclic) =>
        /\ Len(use_envs) = Cardinality(Reach(Root))
        /\ \A n \in Reach(Root) : Count(use_envs, environments[n]) = 1

----------------------------------------------------------------------------
(* C4 *)

\* C4 (precedence law): the merged environment printed for the root R has
\* R's own value for display and go when R defines them, and for every key
\* of R's set, append and prepend maps, whatever the reused ones define.
C4_RootPrecedence ==
    (RootSelected /\ IsSome(env)) =>
        LET r == environments[Root]
            m == Unwrap(env)
        IN /\ IsSome(r.display) => m.display = r.display
           /\ IsSome(r.go) => m.go = r.go
           /\ \A f \in MapFields :
                \A k \in MapKeys(MapOrDefault(r[f])) :
                    /\ k \in MapKeys(MapOrDefault(m[f]))
                    /\ MapGet(MapOrDefault(m[f]), k) = MapGet(Unwrap(r[f]), k)

\* the root defines its fields, and an environment it reuses only through
\* another one defines them with another value
C4_Witness ==
    /\ RootSelected
    /\ IsSome(env)
    /\ IsSome(environments[Root].display)
    /\ IsSome(environments[Root].set)
    /\ \E n \in Reach(Root) \ (Succ(Root) \cup {Root}) :
          /\ IsSome(environments[n].display)
          /\ environments[n].display # environments[Root].display
          /\ IsSome(environments[n].set)
          /\ environments[n].set # environments[Root].set

----------------------------------------------------------------------------
(* C6 *)

\* C6 (missing reference): when a name reachable from the root of an acyclic
\* store is no key of the store, the run ends with a non-zero status, without a merged
\* environment and without any line of it printed, and an error message
\* names a missing name.
C6_MissingReference ==
    (RootSelected /\ pc = "exit" /\ Acyclic /\ ~Closed) =>
        /\ IsSome(exit_code) /\ exit_code # Some(0)
        /\ env = None
        /\ EnvLines = {}
        /\ \E n \in Reach(Root) \ DOMAIN environments : Mentions(n)

----------------------------------------------------------------------------
(* C7 *)

\* the run has ended on one of the errors: the config file is missing or
\* cannot be parsed, the requested name is no key of the store, or a reachable
\* `use` entry names no key of the store
RootAbsent ==
    /\ pc = "exit"
    /\ config_file = "valid"
    /\ ~args.create
    /\ ~args.list
    /\ IsSome(args.env_name)
    /\ Root \notin DOMAIN environments

ErrorRun ==
    /\ pc = "exit"
    /\ \/ config_file \in {"missing", "malformed"}
       \/ RootAbsent
       \/ RootSelected /\ ~Closed

\* C7 (errors are terminal, no partial output): a run that ends on an error
\* ends with a non-zero status and no DISPLAY/DEFER/SET/APPEND/PREPEND/PATH/GO
\* line on its output, no run with a non-zero status has written such a line,
\* and a requested name that is no key of the store is reported with status 1
\* before get_use_environments is entered.
C7_ErrorsTerminal ==
    /\ ErrorRun => (IsSome(exit_code) /\ exit_code # Some(0) /\ EnvLines = {})
    /\ (IsSome(exit_code) /\ exit_code # Some(0)) => (EnvLines = {} /\ env = None)
    /\ RootAbsent =>
         /\ exit_code = Some(1)
         /\ stdout = <<<<"Error", "Environment not found", Root>>>>
         /\ stack = <<>>
         /\ use_envs = <<>>
         /\ stderr = <<>>

\* a run ended by an unresolved `use` entry met after an environment was
\* already resolved
C7_Witness ==
    /\ RootSelected
    /\ pc = "exit"
    /\ exit_code = Some(101)
    /\ Len(stack) >= 1
    /\ Len(stack[1].use_envs) >= 2

----------------------------------------------------------------------------
(* C8 *)

\* the discovery sequence: the root, then every `use` target in list order,
\* recursively, a name being added the first time it is met
RECURSIVE DiscoverList(_, _, _)
Discover(n, acc) ==
    IF \E i \in 1..Len(acc) : acc[i] = n THEN acc
    ELSE DiscoverList(Uses(n), 1, Append(acc, n))
DiscoverList(l, i, acc) ==
    IF i > Len(l) THEN acc
    ELSE DiscoverList(l, i + 1, Discover(l[i], acc))

Preorder == Discover(Root, <<>>)

\* C8 (discover then reverse): in an acyclic store the returned sequence is
\* the reverse of the depth-first preorder discovery sequence. Stated on the
\* stores whose reachable records differ pairwise.
C8_DiscoverThenReverse ==
    (Returned /\ Acyclic /\ DistinctRecords) =>
        use_envs = Reverse([i \in 1..Len(Preorder) |-> environments[Preorder[i]]])

----------------------------------------------------------------------------
(* C9 *)

\* b and c both define display, or go, or a same key of set
Conflict(b, c) ==
    \/ IsSome(b.display) /\ IsSome(c.display)
    \/ IsSome(b.go) /\ IsSome(c.go)
    \/ MapKeys(MapOrDefault(b.set)) \cap MapKeys(MapOrDefault(c.set)) # {}

\* C9 (sibling precedence): in an acyclic store, when the root's `use` list
\* names B before C and both define a same field, B comes after C in the
\* returned sequence, so that B's value wins. Stated on the stores whose
\* reachable records differ pairwise.
C9_SiblingPrecedence ==
    (Returned /\ Acyclic /\ DistinctRecords) =>
        \A i, j \in 1..Len(Uses(Root)) :
            LET b == environments[Uses(Root)[i]]
                c == environments[Uses(Root)[j]]
            IN (i < j /\ Conflict(b, c)) =>
                   Pos(use_envs, b) > Pos(use_envs, c)

----------------------------------------------------------------------------
(* merge_environments on its own: any non-empty sequence of records *)

\* the HashMaps over a part of Keys
Maps ==
    {{{<<k, g[k]>> : k \in K} : g \in [K -> Vals]} : K \in SUBSET Keys}

Vecs == UNION {[1..n -> Vals] : n \in 0..MaxList}

FieldValues(f) ==
    IF f \in ScalarFields THEN Vals
    ELSE IF f \in VecFields THEN Vecs
    ELSE UNION Maps

\* the records that define at most the field f
MergeRecords(f) ==
    {EmptyEnvironment} \cup
    {[EmptyEnvironment EXCEPT ![f] = Some(x)] : x \in FieldValues(f)}

InitMerge ==
    /\ \E f \in FieldNames, n \in 1..MaxLen :
          use_envs \in [1..n -> MergeRecords(f)]
    /\ config_file = "valid"
    /\ args = [env_name |-> None, list |-> FALSE, create |-> FALSE]
    /\ environments = NoStore
    /\ pc = "merge"
    /\ stack = <<>>
    /\ env = None
    /\ stdout = <<>>
    /\ stderr = <<>>
    /\ exit_code = None

NextMerge ==
    \/ Merge
    \/ PrintEnvironment

SpecMerge == InitMerge /\ [][NextMerge]_vars

----------------------------------------------------------------------------
(* C5 *)

RECURSIVE ConcatField(_, _, _)
ConcatField(envs, f, i) ==
    IF i > Len(envs) THEN <<>>
    ELSE VecOrDefault(envs[i][f]) \o ConcatField(envs, f, i + 1)

\* C5 (append-union law): the path and the defer of the merged record are the
\* concatenation, in sequence order, of the path and the defer of the input
\* records, an absent field adding nothing and repeated elements being kept.
C5_AppendUnion ==
    IsSome(env) =>
        \A f \in VecFields :
            VecOrDefault(Unwrap(env)[f]) = ConcatField(use_envs, f, 1)

\* the first record has no path, two later ones have the same element
C5_Witness ==
    /\ IsSome(env)
    /\ Len(use_envs) >= 3
    /\ use_envs[1].path = None
    /\ IsSome(use_envs[2].path)
    /\ Len(Unwrap(use_envs[2].path)) >= 1
    /\ use_envs[3].path = use_envs[2].path
    /\ Len(Unwrap(Unwrap(env).path)) = 2 * Len(Unwrap(use_envs[2].path))

----------------------------------------------------------------------------
(* C10 *)

\* the records of envs that define the scalar field f
Defining(envs, f) == {i \in 1..Len(envs) : IsSome(envs[i][f])}

\* the records of envs whose map f has the key k
DefiningKey(envs, f, k) ==
    {i \in 1..Len(envs) : k \in MapKeys(MapOrDefault(envs[i][f]))}

Last(S) == CHOOSE i \in S : \A j \in S : j <= i

\* C10 (last definition wins): display and go of the merged record are those
\* of the last input record that defines them (absent when none does); the
\* keys of its set, append and prepend maps are the keys of all the records,
\* each with the value of the last record that has the key.
C10_LastDefinitionWins ==
    IsSome(env) =>
        LET m == Unwrap(env)
        IN /\ \A f \in ScalarFields :
                IF Defining(use_envs, f) = {} THEN m[f] = None
                ELSE m[f] = use_envs[Last(Defining(use_envs, f))][f]
           /\ \A f \in MapFields :
                /\ MapKeys(MapOrDefault(m[f])) =
                     UNION {MapKeys(MapOrDefault(use_envs[i][f])) :
                              i \in 1..Len(use_envs)}
                /\ \A k \in MapKeys(MapOrDefault(m[f])) :
                     MapGet(Unwrap(m[f]), k) =
                       MapGet(Unwrap(use_envs[Last(DefiningKey(use_envs, f, k))][f]), k)

\* the first two records give X two values and the last one has only Y
C10_Witness ==
    /\ IsSome(env)
    /\ Len(use_envs) >= 3
    /\ DefiningKey(use_envs, "set", "X") = {1, 2}
    /\ MapGet(Unwrap(use_envs[1].set), "X") # MapGet(Unwrap(use_envs[2].set), "X")
    /\ DefiningKey(use_envs, "set", "Y") = {3}

====
